---- MODULE Spec2Model ----
(***************************************************************************)
(* Model of the CMD402 terminal: the useTerminal hook (command dispatcher, *)
(* transcript, history) and the Web3Provider mint orchestrators it calls.  *)
(* Strings the code computes with (inputs, fault messages) are sequences   *)
(* of characters or fragments so that trim, toLowerCase, split and         *)
(* String.includes are computed, not assumed.                              *)
(***************************************************************************)
EXTENDS Integers, Sequences, FiniteSets, TLC

\* ------------------------------------------------------------------ bounds
\* Most commands submitted in one session (length of commandHistory).
MaxCommands == 2

\* Latest reading of the millisecond clock, and most lines a transcript of
\* timestamps holds.
MaxNow == 7
MaxStamps == 8

\* ------------------------------------------------------- program constants
MINT_PRICE == 1000000

\* ------------------------------------------------------------ text helpers
RECURSIVE Join(_)
\* Template-literal concatenation of fragments into one string.
Join(fs) == IF fs = <<>> THEN "" ELSE Head(fs) \o Join(Tail(fs))

IsSpace(c) == c \in {" ", "\t"}

RECURSIVE TrimLeft(_)
TrimLeft(s) == IF s # <<>> /\ IsSpace(Head(s)) THEN TrimLeft(Tail(s)) ELSE s

RECURSIVE TrimRight(_)
TrimRight(s) ==
    IF s # <<>> /\ IsSpace(s[Len(s)]) THEN TrimRight(SubSeq(s, 1, Len(s) - 1)) ELSE s

\* String.prototype.trim
Trim(s) == TrimRight(TrimLeft(s))

\* toLowerCase left out: the keyword is compared as typed
LowerCharSame(c) == c

\* String.prototype.toLowerCase on the letters the inputs use
LowerChar(c) ==
    CASE c = "M" -> "m" [] c = "I" -> "i" [] c = "N" -> "n" [] c = "T" -> "t"
      [] c = "H" -> "h" [] c = "E" -> "e" [] c = "L" -> "l" [] c = "P" -> "p"
      [] c = "F" -> "f"
      [] OTHER -> c

ToLowerCase(s) == [i \in 1..Len(s) |-> LowerChar(s[i])]

RECURSIVE FirstField(_)
\* s.split(" ")[0]: the characters before the first space character
FirstField(s) ==
    IF s = <<>> \/ Head(s) = " " THEN <<>> ELSE <<Head(s)>> \o FirstField(Tail(s))

\* The input recorded as typed, without trim()
TrimmedInputRaw(input) == input

\* main.tsx:112-113
TrimmedInput(input) == Trim(input)
Command(input) == Join(FirstField(ToLowerCase(Trim(input))))

\* ------------------------------------------------------------- transcript
Line(type, text) == [type |-> type, text |-> text]

\* main.tsx:58-95 and 139-176 (the same six lines)
WelcomeLines ==
    << Line("info", "CMD402 NFT Terminal v1.0.0"),
       Line("info", "Base Chain NFT Minting Interface"),
       Line("info", "Contract: 0x859078e89E58B0Ab0021755B95360f48fBa763dd"),
       Line("info", ""),
       Line("info", "Type 'help' for available commands"),
       Line("info", "") >>

HelpLines ==
    << Line("output", ""),
       Line("output", "Available commands:"),
       Line("output", "  connect    - Connect your wallet to Base chain"),
       Line("output", "  mint       - Mint a new NFT (requires USDC payment)"),
       Line("output", "  balance    - Check your USDC and ETH balances"),
       Line("output", "  nfts       - Display your NFT collection"),
       Line("output", "  clear      - Clear terminal screen"),
       Line("output", "  help       - Show this help message"),
       Line("output", "") >>

\* Inputs a user types (as characters).
Inputs ==
    { <<"h","e","l","p">>,
      <<"c","l","e","a","r">>,
      <<"c","o","n","n","e","c","t">>,
      <<"m","i","n","t">>,
      <<"b","a","l","a","n","c","e">>,
      <<"n","f","t","s">>,
      <<"f","o","o">>,
      <<"F","o","o"," ","b">>,
      <<" ","M","I","N","T"," ","x"," ">>,
      <<" "," ">> }

Empty == <<>>

\* --------------------------------------------------------------- amounts
Digits == <<"0", "1", "2", "3", "4", "5", "6", "7", "8", "9">>

RECURSIVE ToStr(_)
\* Number.prototype.toString for a non-negative integer
ToStr(n) == IF n < 10 THEN Digits[n + 1] ELSE ToStr(n \div 10) \o Digits[(n % 10) + 1]

\* (Number(x) / 1000000).toFixed(2) for an amount x of micro-USDC
Fixed2(x) ==
    LET cents == (x + 5000) \div 10000
    IN  ToStr(cents \div 100) \o "." \o Digits[((cents \div 10) % 10) + 1]
                              \o Digits[(cents % 10) + 1]

\* ---------------------------------------------------------------- faults
\* A thrown value: message as fragments, error.code, whether it is an
\* instance of Error, whether it is the remote layer's own (raw) value, and
\* the branch of the classifier that produced it.
Thrown(msg, code, isError, raw, category) ==
    [msg |-> msg, code |-> code, isError |-> isError, raw |-> raw,
     category |-> category]

RawFault(msg, code, isError) == Thrown(msg, code, isError, TRUE, "Raw")
NewError(category, msg) == Thrown(msg, 0, TRUE, FALSE, category)

FUserRejected == RawFault(<<"User ", "rejected", " the request.">>, 4001, FALSE)
FNoActive == RawFault(<<"execution ", "reverted", ": ", "DropNoActiveCondition">>, 3, TRUE)
FLimit == RawFault(<<"execution ", "reverted", ": ", "DropClaimExceedLimit">>, 3, TRUE)
FAllowance ==
    RawFault(<<"execution ", "reverted", ": ", "ERC20: transfer amount ", "exceed",
               "s ", "allowance">>, 3, TRUE)
FRevert == RawFault(<<"execution ", "reverted", ": ", "!Qty">>, 3, TRUE)
FNetwork == RawFault(<<"Failed to fetch">>, 0, TRUE)
FTimeout == RawFault(<<"Transaction not found after waiting">>, 0, TRUE)
\* The signer's rejection as older wallets word it
FUserDenied ==
    RawFault(<<"MetaMask Tx Signature: User ", "denied", " transaction signature.">>, 4001, FALSE)
\* The structured call cannot be encoded (thrown when sendTx encodes it)
FEncoding == RawFault(<<"ABI encoding params/values length mismatch.">>, 0, TRUE)

\* A remote operation that settles without a fault.
Ok == Thrown(<<>>, 0, FALSE, FALSE, "Ok")

ReadFaults == {FNetwork}
ApproveFaults == {FUserRejected, FNetwork}
ReceiptFaults == {FTimeout}
ClaimFaults == {FUserRejected, FNoActive, FLimit, FAllowance, FRevert, FNetwork}
\* part_006:199-226 prepares a structured call inside its own try block; the
\* other sources send call data encoded from constants.
StructuredClaimFaults(v) == IF v = "part_006" THEN ClaimFaults \cup {FEncoding} ELSE ClaimFaults

\* String.prototype.includes: pat occurs as a contiguous run of fragments
Includes(msg, pat) ==
    \E i \in 1..(Len(msg) - Len(pat) + 1) : SubSeq(msg, i, i + Len(pat) - 1) = pat

\* error.message.match(/reverted: (.+)/)?.[1] || "unknown reason"
RevertReason(msg) ==
    IF \E i \in 1..(Len(msg) - 2) : msg[i] = "reverted" /\ msg[i + 1] = ": "
    THEN LET i == CHOOSE j \in 1..(Len(msg) - 2) :
                      /\ msg[j] = "reverted" /\ msg[j + 1] = ": "
                      /\ \A k \in 1..(j - 1) : ~(msg[k] = "reverted" /\ msg[k + 1] = ": ")
         IN  SubSeq(msg, i + 2, Len(msg))
    ELSE <<"unknown reason">>

\* part_006:298-315, the catch block of mintNFT
Classify006(e) ==
    IF Includes(e.msg, <<"rejected">>) \/ Includes(e.msg, <<"denied">>)
    THEN NewError("UserRejected", <<"Transaction rejected by user">>)
    ELSE IF Includes(e.msg, <<"insufficient", " funds">>)
            \/ Includes(e.msg, <<"insufficient", " balance">>)
    THEN NewError("InsufficientFunds", <<"Insufficient USDC or ETH balance">>)
    ELSE IF Includes(e.msg, <<"DropNoActiveCondition">>)
    THEN NewError("NoActiveOffer", <<"No active claim condition - minting may be paused">>)
    ELSE IF Includes(e.msg, <<"DropClaimExceedLimit">>) \/ Includes(e.msg, <<"exceed">>)
    THEN NewError("LimitExceeded", <<"Already claimed maximum amount">>)
    ELSE IF Includes(e.msg, <<"allowance">>)
    THEN NewError("AllowanceIssue", <<"USDC allowance issue - try again">>)
    ELSE IF Includes(e.msg, <<"execution ", "reverted">>)
    THEN NewError("RemoteRejected", <<"Transaction reverted: ">> \o RevertReason(e.msg))
    ELSE NewError("Unknown",
                  <<"Mint failed: ">> \o
                  (IF e.msg # <<>> THEN e.msg
                   ELSE <<"Unknown error - check console for details">>))

\* Web3Context.tsx:163-179, the catch block of mintNFT
ClassifyCtx(e) ==
    IF Includes(e.msg, <<"rejected">>)
    THEN NewError("UserRejected", <<"Transaction rejected by user">>)
    ELSE IF Includes(e.msg, <<"insufficient">>)
    THEN NewError("InsufficientFunds", <<"Insufficient USDC balance">>)
    ELSE IF Includes(e.msg, <<"DropNoActiveCondition">>)
    THEN NewError("NoActiveOffer", <<"No active claim condition">>)
    ELSE IF Includes(e.msg, <<"DropClaimExceedLimit">>)
    THEN NewError("LimitExceeded", <<"Already claimed maximum amount">>)
    ELSE IF Includes(e.msg, <<"execution ", "reverted">>)
    THEN NewError("RemoteRejected", <<"Claim failed - check if mint is active">>)
    ELSE e

\* part_011:352-372, the catch block of mintNFT
Classify011(e) ==
    IF Includes(e.msg, <<"user ", "rejected">>) \/ e.code = 4001
    THEN NewError("UserRejected", <<"Transaction cancelled by user">>)
    ELSE IF Includes(e.msg, <<"insufficient">>) \/ Includes(e.msg, <<"USDC balance">>)
    THEN NewError("InsufficientFunds", e.msg)
    ELSE IF e.code = 3 \/ Includes(e.msg, <<"execution ", "reverted">>)
    THEN NewError("RemoteRejected",
                  <<"Mint failed: Contract rejected the transaction. Please ensure you have enough USDC and the contract is active.">>)
    ELSE NewError("Unknown",
                  IF e.msg # <<>> THEN e.msg
                  ELSE <<"Failed to mint NFT. Please try again.">>)

Variants == {"part_006", "Web3Context", "part_011"}

Classify(v, e) ==
    CASE v = "part_006" -> Classify006(e)
      [] v = "Web3Context" -> ClassifyCtx(e)
      [] v = "part_011" -> Classify011(e)

\* part_006:146 and part_011:303, the error thrown when the balance is short
InsufficientBalanceError(v, required, balance) ==
    IF v = "part_006"
    THEN NewError("Local",
                  <<"Insufficient ", "USDC balance", ". Need ", Fixed2(required),
                    " USDC, have ", Fixed2(balance), " USDC">>)
    ELSE NewError("Local",
                  <<"Insufficient ", "USDC balance", ". You need at least ",
                    ToStr(MINT_PRICE \div 1000000), " USDC to mint.">>)

\* error instanceof Error ? error.message : "Unknown error"  (main.tsx:213)
MessageOf(e) == IF e.isError THEN Join(e.msg) ELSE "Unknown error"

\* Transaction hashes as <<first 10 characters, middle, last 8 characters>>
ApproveHash == <<"0xaaaaaaaa", "aaaa", "aaaaaaaa">>
ClaimHash == <<"0xcccccccc", "cccc", "cccccccc">>
FallbackHash == <<"0xffffffff", "ffff", "ffffffff">>

\* txHash.slice(0, 10) and txHash.slice(-8)  (main.tsx:211)
SliceHead(h) == h[1]
SliceTail(h) == h[3]


VARIABLES
    variant,          \* which Web3Provider source file is mounted
    account,          \* useActiveAccount() is non-null
    chainBalance,     \* USDC balanceOf(holder) on the remote ledger
    chainAllowance,   \* USDC allowance(holder, NFT contract) on the remote ledger
    approvePending,   \* an approve transaction is submitted and not yet mined
    chainNFTs,        \* ERC-1155 balanceOf(holder, TOKEN_ID) on the remote ledger
    lines,            \* useState<TerminalLine[]>
    currentInput,     \* useState("")
    commandHistory,   \* useState<string[]>
    historyIndex,     \* useState(-1)
    isProcessing,     \* useState(false)
    renderedProcessing, \* isProcessing as captured by the last render
    executing,        \* executeCommand invocations between setIsProcessing(true) and finally
    pc,               \* suspension point of the running executeCommand
    faults,           \* remote operations that failed during the running (or last) command
    mint,             \* the running (or last) mintNFT invocation
    pendingClaims,    \* claim transactions submitted and not yet mined
    lastKey,          \* the key handleKeyDown received in the last step, "none" otherwise
    call              \* a call of getBalance made directly on the provider (useWeb3())

vars == << variant, account, chainBalance, chainAllowance, approvePending,
           chainNFTs, lines,
           currentInput, commandHistory, historyIndex, isProcessing,
           renderedProcessing, executing, pc, faults, mint, pendingClaims, lastKey,
           call >>

chainVars == << chainBalance, chainAllowance, approvePending >>
inputVars == << currentInput, commandHistory, historyIndex >>

\* A wallet projection that always reports a connection
WalletConnectedAlways == TRUE

\* wallet?.isConnected: wallet is derived from account (Web3Context.tsx:50-54)
WalletConnected == account

\* A mintNFT invocation that has not been started.
NoMint ==
    [ invoked |-> FALSE, reads |-> 0, approveWrites |-> 0, claimWrites |-> 0,
      approveAmount |-> 0, balanceRead |-> -1, allowanceRead |-> -1,
      confirmationObserved |-> FALSE, claimedUnconfirmed |-> FALSE,
      confirmationTimedOut |-> FALSE, claimStatus |-> "none",
      structuredFailure |-> "none",
      outcome |-> "none", hash |-> <<>>, error |-> NewError("None", <<>>),
      holderAtStart |-> FALSE, chainBalanceAtStart |-> 0, chainAllowanceAtStart |-> 0 ]

Amounts == {0, MINT_PRICE}

\* No direct call of a provider function is under way.
NoCall == [state |-> "none"]

Init ==
    /\ variant \in Variants
    /\ account = FALSE
    /\ chainBalance \in Amounts
    /\ chainAllowance \in Amounts
    /\ approvePending = FALSE
    /\ chainNFTs = 0
    /\ lines = WelcomeLines
    /\ currentInput = Empty
    /\ commandHistory = <<>>
    /\ historyIndex = -1
    /\ isProcessing = FALSE
    /\ renderedProcessing = FALSE
    /\ executing = 0
    /\ pc = "idle"
    /\ faults = 0
    /\ mint = NoMint
    /\ pendingClaims = 0
    /\ lastKey = "none"
    /\ call = NoCall

\* ------------------------------------------------- the external world
\* The wallet collaborator connects or disconnects the active account; the
\* provider re-renders with the new wallet projection.
SessionChange ==
    /\ account' = ~account
    /\ UNCHANGED << variant, chainVars, chainNFTs, lines, inputVars, isProcessing,
                    renderedProcessing, executing, pc, faults, mint >>
    /\ UNCHANGED pendingClaims
    /\ lastKey' = "none"
    /\ UNCHANGED call

\* The submitted approve transaction is mined: the allowance becomes the
\* approved amount.
ChainMinesApprove ==
    /\ approvePending
    /\ approvePending' = FALSE
    /\ chainAllowance' = mint.approveAmount
    /\ UNCHANGED << variant, account, chainBalance, chainNFTs, lines, inputVars, isProcessing,
                    renderedProcessing, executing, pc, faults, mint >>
    /\ UNCHANGED pendingClaims
    /\ lastKey' = "none"
    /\ UNCHANGED call

\* React commits a render: handleKeyDown is re-created over the current state.
Render ==
    /\ renderedProcessing # isProcessing
    /\ renderedProcessing' = isProcessing
    /\ UNCHANGED << variant, account, chainVars, chainNFTs, lines, inputVars, isProcessing,
                    executing, pc, faults, mint >>
    /\ UNCHANGED pendingClaims
    /\ lastKey' = "none"
    /\ UNCHANGED call

\* ------------------------------------------------- keyboard and input
\* An input element without the disabled attribute
InputDisabledNever == FALSE

\* Terminal.tsx:85, the input element is disabled while processing
InputDisabled == renderedProcessing

\* Terminal.tsx:84, onChange = setCurrentInput(e.target.value)
TypeInput ==
    /\ ~InputDisabled
    /\ Len(commandHistory) < MaxCommands
    /\ \E s \in Inputs \cup {Empty} :
          /\ s # currentInput
          /\ currentInput' = s
    /\ UNCHANGED << variant, account, chainVars, chainNFTs, lines, commandHistory, historyIndex,
                    isProcessing, renderedProcessing, executing, pc, faults, mint >>
    /\ UNCHANGED pendingClaims
    /\ lastKey' = "none"
    /\ UNCHANGED call

\* handleKeyDown without its isProcessing guard
KeyIgnoredNever == FALSE

\* main.tsx:276, the guard at the top of handleKeyDown
KeyIgnored == renderedProcessing

\* A blank test without trim(): only the empty string is blank
IsBlankWhenEmpty(input) == input = <<>>

\* main.tsx:280 and main.tsx:110
IsBlank(input) == Trim(input) = <<>>

\* The value of an array element that does not exist
Undefined == <<"undefined">>

\* commandHistory[newIndex] (main.tsx:289, 300)
HistoryEntry(history, index) ==
    IF index + 1 \in 1..Len(history) THEN history[index + 1] ELSE Undefined

\* ArrowUp that always lands on the newest entry
ArrowUpIndexNewest(index, len) == len - 1

\* main.tsx:287, newIndex of ArrowUp (Math.max(0, historyIndex - 1))
ArrowUpIndex(index, len) ==
    IF index = -1 THEN len - 1
    ELSE IF index - 1 > 0 THEN index - 1 ELSE 0

\* main.tsx:284-290
KeyArrowUp ==
    /\ IF KeyIgnored \/ Len(commandHistory) = 0
       THEN UNCHANGED << historyIndex, currentInput >>
       ELSE LET newIndex == ArrowUpIndex(historyIndex, Len(commandHistory))
            IN  /\ historyIndex' = newIndex
                /\ currentInput' = HistoryEntry(commandHistory, newIndex)
    /\ UNCHANGED << variant, account, chainVars, chainNFTs, lines, commandHistory, isProcessing,
                    renderedProcessing, executing, pc, faults, mint >>
    /\ UNCHANGED pendingClaims
    /\ lastKey' = "ArrowUp"
    /\ UNCHANGED call

\* ArrowDown that stays on the newest entry instead of leaving the history
ArrowDownIndexStays(index, len) == IF index + 1 >= len THEN index ELSE index + 1

\* ArrowDown that leaves the history one step too late (> for >=)
ArrowDownIndexPastEnd(index, len) == IF index + 1 > len THEN -1 ELSE index + 1

\* main.tsx:294-299, the cursor after ArrowDown: -1 once past the newest entry
ArrowDownIndex(index, len) == IF index + 1 >= len THEN -1 ELSE index + 1

\* main.tsx:291-303
KeyArrowDown ==
    /\ IF KeyIgnored \/ historyIndex = -1
       THEN UNCHANGED << historyIndex, currentInput >>
       ELSE LET newIndex == ArrowDownIndex(historyIndex, Len(commandHistory))
            IN  /\ historyIndex' = newIndex
                /\ currentInput' = IF newIndex = -1 THEN Empty
                                   ELSE HistoryEntry(commandHistory, newIndex)
    /\ UNCHANGED << variant, account, chainVars, chainNFTs, lines, commandHistory, isProcessing,
                    renderedProcessing, executing, pc, faults, mint >>
    /\ UNCHANGED pendingClaims
    /\ lastKey' = "ArrowDown"
    /\ UNCHANGED call

\* Enter while the guard holds or on a blank buffer: nothing happens
\* (main.tsx:276 and main.tsx:280).
KeyEnterNoop ==
    /\ KeyIgnored \/ IsBlank(currentInput)
    /\ lastKey' = "Enter"
    /\ UNCHANGED call
    /\ UNCHANGED << variant, account, chainVars, chainNFTs, lines, inputVars, isProcessing,
                    renderedProcessing, executing, pc, faults, mint, pendingClaims >>

\* ------------------------------------------------- executeCommand
\* addLine putting the new lines in front of the previous ones
AddLinesInFront(prev, new) == new \o prev

\* main.tsx:99-107, addLine appends to the previous lines
AddLines(prev, new) == prev \o new

\* main.tsx:120
Echo(input) == Line("command", "> " \o Join(TrimmedInput(input)))

\* Enter is accepted: main.tsx:278-283 calls executeCommand(currentInput) and
\* clears the buffer; main.tsx:112-122 records the command.
Accepted ==
    /\ ~KeyIgnored
    /\ ~IsBlank(currentInput)
    /\ Len(commandHistory) < MaxCommands
    /\ commandHistory' = Append(commandHistory, TrimmedInput(currentInput))
    /\ historyIndex' = -1
    /\ currentInput' = Empty
    /\ faults' = 0
    /\ lastKey' = "Enter"
    /\ UNCHANGED call

\* The command ran to its finally block inside the key event: isProcessing
\* was set and reset in one batch and the render commits false.
RanToCompletion(newLines) ==
    /\ lines' = newLines
    /\ isProcessing' = FALSE
    /\ renderedProcessing' = FALSE
    /\ UNCHANGED << executing, pc >>

\* The command suspended at an await: the event ends with isProcessing true.
Suspended(newLines, at) ==
    /\ lines' = newLines
    /\ isProcessing' = TRUE
    /\ renderedProcessing' = TRUE
    /\ executing' = executing + 1
    /\ pc' = at

\* executeCommand without its finally block: the busy flag is never reset
FinishedStillBusy(newLines) ==
    /\ lines' = newLines
    /\ pc' = "idle"
    /\ UNCHANGED << isProcessing, executing, renderedProcessing, inputVars >>

\* The running command resumes after its last await and reaches finally
\* (main.tsx:269-271); the render follows later.
Finished(newLines) ==
    /\ lines' = newLines
    /\ isProcessing' = FALSE
    /\ executing' = executing - 1
    /\ pc' = "idle"
    /\ UNCHANGED << renderedProcessing, inputVars >>

\* A remote operation settled with r: a fault is counted.
Counted(r) == faults' = IF r = Ok THEN faults ELSE faults + 1

\* main.tsx:126-136
EnterHelp ==
    /\ Accepted
    /\ UNCHANGED pendingClaims
    /\ Command(currentInput) = "help"
    /\ RanToCompletion(AddLines(lines, <<Echo(currentInput)>> \o HelpLines))
    /\ UNCHANGED << variant, account, chainVars, chainNFTs, mint >>

\* clear that sets the banner and then appends its own echo
EnterClearKeepsEcho ==
    /\ Accepted
    /\ UNCHANGED pendingClaims
    /\ Command(currentInput) = "clear"
    /\ RanToCompletion(WelcomeLines \o <<Echo(currentInput)>>)
    /\ UNCHANGED << variant, account, chainVars, chainNFTs, mint >>

\* main.tsx:138-178
EnterClear ==
    /\ Accepted
    /\ UNCHANGED pendingClaims
    /\ Command(currentInput) = "clear"
    /\ RanToCompletion(WelcomeLines)
    /\ UNCHANGED << variant, account, chainVars, chainNFTs, mint >>

Recognized == {"help", "clear", "connect", "mint", "balance", "nfts"}

\* main.tsx:261-264
EnterUnknown ==
    /\ Accepted
    /\ UNCHANGED pendingClaims
    /\ Command(currentInput) \notin Recognized
    /\ RanToCompletion(AddLines(lines,
          << Echo(currentInput),
             Line("error", "Command not found: " \o Command(currentInput)),
             Line("output", "Type 'help' for available commands"),
             Line("output", "") >>))
    /\ UNCHANGED << variant, account, chainVars, chainNFTs, mint >>

\* The check mark U+2713 and the space after it, written in ASCII
CheckMark == "[ok] "

NotConnectedLine == Line("error", "Wallet not connected. Run 'connect' first.")

\* connect that asks the wallet collaborator whatever the session is
EnterConnectReconnects ==
    /\ Accepted
    /\ UNCHANGED pendingClaims
    /\ Command(currentInput) = "connect"
    /\ Suspended(AddLines(lines,
           << Echo(currentInput), Line("output", ""),
              Line("info", "Initializing wallet connection..."),
              Line("info", "Please approve the connection in your wallet") >>),
           "connect:timer")
    /\ UNCHANGED << variant, account, chainVars, chainNFTs, mint >>

\* main.tsx:180-199
EnterConnect ==
    /\ Accepted
    /\ UNCHANGED pendingClaims
    /\ Command(currentInput) = "connect"
    /\ IF WalletConnected
       THEN RanToCompletion(AddLines(lines,
               << Echo(currentInput), Line("output", ""),
                  Line("info", "Already connected: 0x1234...abcd"),
                  Line("info", "Chain ID: 8453 (Base)"),
                  Line("output", "") >>))
       ELSE Suspended(AddLines(lines,
               << Echo(currentInput), Line("output", ""),
                  Line("info", "Initializing wallet connection..."),
                  Line("info", "Please approve the connection in your wallet") >>),
               "connect:timer")
    /\ UNCHANGED << variant, account, chainVars, chainNFTs, mint >>

\* Web3Context.tsx:56-72 after the 100 ms timer: the hidden button is clicked,
\* or is not found and connectWallet throws (main.tsx:194-196 reports it).
ConnectTimer ==
    /\ pc = "connect:timer"
    /\ \E buttonFound \in BOOLEAN :
          IF buttonFound
          THEN /\ pc' = "connect:delay"
               /\ UNCHANGED << lines, isProcessing, executing, faults >>
          ELSE /\ lines' = AddLines(lines,
                     << Line("error", "Connection failed: Connect button not found. Please refresh the page."),
                        Line("output", "") >>)
               /\ isProcessing' = FALSE
               /\ executing' = executing - 1
               /\ faults' = faults + 1
               /\ pc' = "idle"
    /\ UNCHANGED << variant, account, chainVars, chainNFTs, inputVars, renderedProcessing, mint >>
    /\ UNCHANGED pendingClaims
    /\ lastKey' = "none"
    /\ UNCHANGED call

\* main.tsx:191-198 after the 500 ms delay
ConnectDelay ==
    /\ pc = "connect:delay"
    /\ Finished(AddLines(lines,
          << Line("info", CheckMark \o "Wallet connected successfully"),
             Line("info", CheckMark \o "Base Chain active"),
             Line("output", "") >>))
    /\ UNCHANGED << variant, account, chainVars, chainNFTs, faults, mint >>
    /\ UNCHANGED pendingClaims
    /\ lastKey' = "none"
    /\ UNCHANGED call

\* ------------------------------------------------- mintNFT
\* part_006:111, the default of the quantity parameter
DefaultQuantity == 1

\* part_006:118 (the other two sources use MINT_PRICE itself)
TotalPrice == MINT_PRICE * DefaultQuantity

\* part_006:112, Web3Context.tsx:75, part_011:293: the guard of mintNFT
MintGuardFails == ~account

\* main.tsx:210-211 and 216, after mintNFT returned txHash
MintSuccessLines(txHash) ==
    << Line("info", CheckMark \o "NFT minted successfully"),
       Line("info", "Transaction: " \o SliceHead(txHash) \o "..." \o SliceTail(txHash)),
       Line("output", "") >>

\* main.tsx:212-216, after mintNFT threw
MintFailureLines(e) ==
    << Line("error", "Mint failed: " \o MessageOf(e)),
       Line("output", "") >>

\* The first remote call of mintNFT: the balance read (part_006:137,
\* part_011:300 via checkUSDCBalance) or the allowance read (Web3Context.tsx:87).
FirstCall(v) == IF v = "Web3Context" THEN "mint:allowance" ELSE "mint:balanceOf"

\* main.tsx:201-217
EnterMint ==
    /\ Accepted
    /\ UNCHANGED pendingClaims
    /\ Command(currentInput) = "mint"
    /\ IF ~WalletConnected
       THEN /\ RanToCompletion(AddLines(lines,
                  << Echo(currentInput), Line("output", ""), NotConnectedLine,
                     Line("output", "") >>))
            /\ mint' = [NoMint EXCEPT !.outcome = "notConnected"]
       ELSE IF MintGuardFails
       THEN /\ RanToCompletion(AddLines(lines,
                  << Echo(currentInput), Line("output", ""),
                     Line("info", "Preparing to mint NFT..."),
                     Line("info", "This requires USDC payment approval") >>
                  \o MintFailureLines(NewError("NotConnected", <<"Wallet not connected">>))))
            /\ mint' = [NoMint EXCEPT !.invoked = TRUE, !.outcome = "threw",
                                      !.error = NewError("NotConnected", <<"Wallet not connected">>)]
       ELSE /\ Suspended(AddLines(lines,
                  << Echo(currentInput), Line("output", ""),
                     Line("info", "Preparing to mint NFT..."),
                     Line("info", "This requires USDC payment approval") >>),
                  FirstCall(variant))
            /\ mint' = [NoMint EXCEPT !.invoked = TRUE, !.outcome = "running",
                                      !.reads = 1,
                                      !.holderAtStart = account,
                                      !.chainBalanceAtStart = chainBalance,
                                      !.chainAllowanceAtStart = chainAllowance]
    /\ UNCHANGED << variant, account, chainVars, chainNFTs >>

\* mintNFT throws e out of its catch block; executeCommand reports it.
MintThrows(m, e) ==
    /\ mint' = [m EXCEPT !.outcome = "threw", !.error = e]
    /\ Finished(AddLines(lines, MintFailureLines(e)))

\* a report of the returned hash that goes on into the catch block
MintReturnsThenFails(m, txHash) ==
    /\ mint' = [m EXCEPT !.outcome = "returned", !.hash = txHash]
    /\ Finished(AddLines(lines,
          << Line("info", CheckMark \o "NFT minted successfully"),
             Line("error", "Mint failed: Unknown error"),
             Line("output", "") >>))

\* mintNFT returns txHash; executeCommand reports it.
MintReturns(m, txHash) ==
    /\ mint' = [m EXCEPT !.outcome = "returned", !.hash = txHash]
    /\ Finished(AddLines(lines, MintSuccessLines(txHash)))

\* mintNFT goes on to its next await.
MintAwaits(m, at) ==
    /\ mint' = m
    /\ pc' = at
    /\ UNCHANGED << lines, isProcessing, executing, renderedProcessing, inputVars >>

\* sendTransaction(approveTransaction) is called (part_006:164-173,
\* Web3Context.tsx:99-108, part_011:314-323): one authorization write.
SubmitApprove(m, amount) ==
    MintAwaits([m EXCEPT !.approveWrites = @ + 1, !.approveAmount = amount],
               "mint:approve")

\* sendTx / sendTransaction of the claim is called (part_006:218,
\* Web3Context.tsx:158, part_011:344): one claim write.
SubmitClaim(m) ==
    MintAwaits([m EXCEPT !.claimWrites = @ + 1,
                         !.claimedUnconfirmed =
                             (m.approveWrites > 0 /\ ~m.confirmationObserved)],
               "mint:claim")

\* A step after the allowance read that goes back to the balance read
AfterAllowanceRechecks(m, allowance) ==
    IF allowance < TotalPrice THEN SubmitApprove(m, TotalPrice)
    ELSE MintAwaits(m, "mint:balanceOf")

\* The step after the allowance is known (part_006:160-188,
\* Web3Context.tsx:96-116).
AfterAllowance(m, allowance) ==
    IF allowance < TotalPrice THEN SubmitApprove(m, TotalPrice) ELSE SubmitClaim(m)

\* The balance read settles.
\* part_006:137-147: a short balance throws inside the try block;
\* part_011:268-304: checkUSDCBalance turns a failed read into false, then the
\* approve is sent without an allowance read.
MintBalanceOf ==
    /\ pc = "mint:balanceOf"
    /\ \E r \in {Ok} \cup ReadFaults :
          /\ Counted(r)
          /\ IF variant = "part_006"
             THEN IF r # Ok
                  THEN MintThrows(mint, Classify(variant, r))
                  ELSE LET m == [mint EXCEPT !.balanceRead = chainBalance]
                       IN  IF chainBalance < TotalPrice
                           THEN MintThrows(m, Classify(variant,
                                    InsufficientBalanceError(variant, TotalPrice, chainBalance)))
                           ELSE MintAwaits([m EXCEPT !.reads = @ + 1], "mint:allowance")
             ELSE LET hasEnoughUSDC == r = Ok /\ chainBalance >= MINT_PRICE
                      m == IF r = Ok THEN [mint EXCEPT !.balanceRead = chainBalance] ELSE mint
                  IN  IF ~hasEnoughUSDC
                      THEN MintThrows(m, Classify(variant,
                               InsufficientBalanceError(variant, MINT_PRICE, chainBalance)))
                      ELSE SubmitApprove(m, MINT_PRICE)
    /\ UNCHANGED << variant, account, chainVars, chainNFTs >>
    /\ UNCHANGED pendingClaims
    /\ lastKey' = "none"
    /\ UNCHANGED call

\* The allowance read settles (part_006:151-160, Web3Context.tsx:87-96).
MintAllowance ==
    /\ pc = "mint:allowance"
    /\ \E r \in {Ok} \cup ReadFaults :
          /\ Counted(r)
          /\ IF r # Ok
             THEN MintThrows(mint, Classify(variant, r))
             ELSE AfterAllowance([mint EXCEPT !.allowanceRead = chainAllowance],
                                 chainAllowance)
    /\ UNCHANGED << variant, account, chainVars, chainNFTs >>
    /\ UNCHANGED pendingClaims
    /\ lastKey' = "none"
    /\ UNCHANGED call

\* A failed authorization write that is ignored: the claim is sent anyway
ApproveFailedClaims(m, e) ==
    /\ SubmitClaim(m)
    /\ UNCHANGED approvePending

\* sendTransaction(approveTransaction) threw: nothing was submitted and the
\* catch block of mintNFT throws the classified error (part_006:170-173 and
\* 275-315, Web3Context.tsx:105-108 and 163-179).
ApproveFailed(m, e) ==
    /\ MintThrows(m, e)
    /\ UNCHANGED approvePending

\* sendTransaction(approveTransaction) settles: the transaction is submitted
\* (hash known, not yet mined) or the send fails.  part_006:179 then awaits
\* waitForReceipt; Web3Context.tsx:113 and part_011:328 sleep instead.
MintApprove ==
    /\ pc = "mint:approve"
    /\ \E r \in {Ok} \cup ApproveFaults :
          /\ Counted(r)
          /\ IF r # Ok
             THEN ApproveFailed(mint, Classify(variant, r))
             ELSE /\ approvePending' = TRUE
                  /\ MintAwaits(mint, IF variant = "part_006" THEN "mint:receipt"
                                      ELSE "mint:sleep")
    /\ UNCHANGED << variant, account, chainBalance, chainAllowance, chainNFTs >>
    /\ UNCHANGED pendingClaims
    /\ lastKey' = "none"
    /\ UNCHANGED call

\* waitForReceipt settles (part_006:179-185): with the receipt once the
\* approve is mined, or with a fault.
MintReceipt ==
    /\ pc = "mint:receipt"
    /\ \E r \in {Ok} \cup ReceiptFaults :
          /\ Counted(r)
          /\ IF r # Ok
             THEN MintThrows([mint EXCEPT !.confirmationTimedOut = TRUE],
                             Classify(variant, r))
             ELSE /\ ~approvePending
                  /\ SubmitClaim([mint EXCEPT !.confirmationObserved = TRUE])
    /\ UNCHANGED << variant, account, chainVars, chainNFTs >>
    /\ UNCHANGED pendingClaims
    /\ lastKey' = "none"
    /\ UNCHANGED call

\* The fixed delay elapses (Web3Context.tsx:113, part_011:328).
MintSleep ==
    /\ pc = "mint:sleep"
    /\ SubmitClaim([mint EXCEPT !.confirmationTimedOut = approvePending])
    /\ UNCHANGED << variant, account, chainVars, chainNFTs, faults >>
    /\ UNCHANGED pendingClaims
    /\ lastKey' = "none"
    /\ UNCHANGED call

\* The ledger accepts a claim when the price can be taken out of the balance
\* and the allowance; sendTransaction simulates the call before sending it.
ClaimAcceptable == chainBalance >= MINT_PRICE /\ chainAllowance >= MINT_PRICE

\* What the ledger does with a claim it accepts.
ClaimAccepted ==
    /\ ClaimAcceptable
    /\ chainBalance' = chainBalance - MINT_PRICE
    /\ chainAllowance' = chainAllowance - MINT_PRICE
    /\ chainNFTs' = chainNFTs + 1
    /\ UNCHANGED approvePending

\* sendTx resolved with the hash of a claim that is submitted, not yet mined
\* (part_006:218-224 and 267-273, Web3Context.tsx:158-162, part_011:344-350:
\* no receipt is awaited).
ClaimSubmitted ==
    /\ ClaimAcceptable
    /\ pendingClaims' = pendingClaims + 1
    /\ UNCHANGED << chainVars, chainNFTs >>

\* The oldest submitted claim is mined, after any approve submitted before
\* it: it lands, or it reverts (the drop's condition or supply changed, or
\* the price can no longer be taken).  The invocation the claim belongs to
\* has returned by then.
ChainMinesClaim ==
    /\ pendingClaims > 0
    /\ ~approvePending
    /\ pendingClaims' = pendingClaims - 1
    /\ \E lands \in BOOLEAN :
          /\ IF lands /\ ClaimAcceptable
             THEN ClaimAccepted
             ELSE UNCHANGED << chainVars, chainNFTs >>
          /\ mint' = IF pendingClaims = 1 /\ mint.claimStatus = "pending"
                     THEN [mint EXCEPT !.claimStatus =
                              IF lands /\ ClaimAcceptable THEN "confirmed" ELSE "reverted"]
                     ELSE mint
    /\ UNCHANGED << variant, account, lines, inputVars, isProcessing,
                    renderedProcessing, executing, pc, faults >>
    /\ lastKey' = "none"
    /\ UNCHANGED call

\* The claim settles.  part_006:226-267: any failure of the structured call
\* sends the manually encoded claim; Web3Context.tsx:163 and part_011:352
\* classify the failure.
MintClaim ==
    /\ pc = "mint:claim"
    /\ \E r \in {Ok} \cup StructuredClaimFaults(variant) :
          /\ Counted(r)
          /\ IF r = Ok
             THEN /\ ClaimSubmitted
                  /\ MintReturns([mint EXCEPT !.claimStatus = "pending"], ClaimHash)
             ELSE /\ UNCHANGED << chainVars, chainNFTs, pendingClaims >>
                  /\ IF variant = "part_006"
                     THEN MintAwaits([mint EXCEPT !.claimWrites = @ + 1,
                                                  !.structuredFailure =
                                                      IF r = FEncoding THEN "encoding"
                                                      ELSE "other"],
                                     "mint:fallback")
                     ELSE MintThrows(mint, Classify(variant, r))
    /\ UNCHANGED << variant, account >>
    /\ lastKey' = "none"
    /\ UNCHANGED call

\* The manually encoded claim settles (part_006:267-273, then the outer catch).
MintFallback ==
    /\ pc = "mint:fallback"
    /\ \E r \in {Ok} \cup ClaimFaults :
          /\ Counted(r)
          /\ IF r = Ok
             THEN /\ ClaimSubmitted
                  /\ MintReturns([mint EXCEPT !.claimStatus = "pending"], FallbackHash)
             ELSE /\ UNCHANGED << chainVars, chainNFTs, pendingClaims >>
                  /\ MintThrows(mint, Classify(variant, r))
    /\ UNCHANGED << variant, account >>
    /\ lastKey' = "none"
    /\ UNCHANGED call

\* ------------------------------------------------- getBalance, getNFTs
\* useWalletBalance().data?.displayValue as getBalance's closure holds it:
\* undefined while the hook has no data, else the native balance.
EthDisplayValues == {"undefined", "0.0100"}

\* parseFloat(displayValue).toFixed(4), "0.0000" without data
\* (Web3Context.tsx:200-202)
EthFormatted(displayValue) ==
    IF displayValue = "undefined" THEN "0.0000" ELSE displayValue

\* Web3Context.tsx:182-215 (part_006:319-351 is the same): the value
\* getBalance resolves with; a failed read resolves with zeros.
GetBalanceResult(r, usdcBalance, displayValue) ==
    IF r = Ok
    THEN [usdc |-> Fixed2(usdcBalance), native |-> EthFormatted(displayValue)]
    ELSE [usdc |-> "0.00", native |-> "0.0000"]

\* Web3Context.tsx:217-247: the value getNFTs resolves with; a failed read
\* resolves with the empty list.
GetNFTsResult(r, nftBalance) ==
    IF r = Ok /\ nftBalance > 0
    THEN << "NFT #0 (x" \o ToStr(nftBalance) \o ")" >>
    ELSE << >>

\* main.tsx:219-235
EnterBalance ==
    /\ Accepted
    /\ UNCHANGED pendingClaims
    /\ Command(currentInput) = "balance"
    /\ IF ~WalletConnected
       THEN RanToCompletion(AddLines(lines,
               << Echo(currentInput), Line("output", ""), NotConnectedLine,
                  Line("output", "") >>))
       ELSE Suspended(AddLines(lines,
               << Echo(currentInput), Line("output", ""),
                  Line("info", "Fetching balances...") >>),
               "balance:balanceOf")
    /\ UNCHANGED << variant, account, chainVars, chainNFTs, mint >>

\* getBalance settles and main.tsx:227-234 prints the balances.
BalanceSettles ==
    /\ pc = "balance:balanceOf"
    /\ \E r \in {Ok} \cup ReadFaults, displayValue \in EthDisplayValues :
          /\ Counted(r)
          /\ LET balances == GetBalanceResult(r, chainBalance, displayValue)
             IN  Finished(AddLines(lines,
                    << Line("output", ""),
                       Line("info", "USDC Balance: " \o balances.usdc \o " USDC"),
                       Line("info", "ETH Balance:  " \o balances.native \o " ETH"),
                       Line("output", "") >>))
    /\ UNCHANGED << variant, account, chainVars, chainNFTs, mint >>
    /\ UNCHANGED pendingClaims
    /\ lastKey' = "none"
    /\ UNCHANGED call

\* main.tsx:237-259
EnterNfts ==
    /\ Accepted
    /\ UNCHANGED pendingClaims
    /\ Command(currentInput) = "nfts"
    /\ IF ~WalletConnected
       THEN RanToCompletion(AddLines(lines,
               << Echo(currentInput), Line("output", ""), NotConnectedLine,
                  Line("output", "") >>))
       ELSE Suspended(AddLines(lines,
               << Echo(currentInput), Line("output", ""),
                  Line("info", "Loading your NFT collection...") >>),
               "nfts:balanceOf")
    /\ UNCHANGED << variant, account, chainVars, chainNFTs, mint >>

\* main.tsx:249-252, one line per NFT
NftLines(nfts) ==
    [i \in 1..Len(nfts) |->
        Line("output", "  " \o ToStr(i) \o ". " \o nfts[i] \o " (Token #0)")]

\* getNFTs settles and main.tsx:245-258 prints the collection.
NftsSettles ==
    /\ pc = "nfts:balanceOf"
    /\ \E r \in {Ok} \cup ReadFaults :
          /\ Counted(r)
          /\ LET nfts == GetNFTsResult(r, chainNFTs)
             IN  Finished(AddLines(lines,
                    << Line("output", "") >> \o
                    (IF Len(nfts) = 0
                     THEN << Line("info", "No NFTs found in your wallet") >>
                     ELSE << Line("info", "Found " \o ToStr(Len(nfts)) \o " NFT"
                                          \o (IF Len(nfts) > 1 THEN "s" ELSE "") \o ":") >>
                          \o NftLines(nfts))
                    \o << Line("output", "") >>))
    /\ UNCHANGED << variant, account, chainVars, chainNFTs, mint >>
    /\ UNCHANGED pendingClaims
    /\ lastKey' = "none"
    /\ UNCHANGED call

\* ------------------------------------------------- getBalance called directly
\* The three sources of getBalance.
GetBalanceSources == {"Web3Context", "part_006", "part_008"}

RECURSIVE DropZeros(_)
DropZeros(ds) ==
    IF ds # <<>> /\ ds[Len(ds)] = "0" THEN DropZeros(SubSeq(ds, 1, Len(ds) - 1)) ELSE ds

\* (Number(x) / 1e6).toString()  (part_008:115)
Div1e6Str(x) ==
    LET f == x % 1000000
        ds == [i \in 1..6 |-> Digits[((f \div (10 ^ (6 - i))) % 10) + 1]]
    IN  IF f = 0 THEN ToStr(x \div 1000000)
        ELSE ToStr(x \div 1000000) \o "." \o Join(DropZeros(ds))

\* if (!wallet) throw new Error("Wallet not connected")
\* (Web3Context.tsx:183, part_006:320, part_008:95)
GetBalanceGuardFails == ~account

NoValue == [usdc |-> "", native |-> ""]

\* What getBalance of source src settles with once its read settled with r:
\* Web3Context.tsx:185-214 and part_006:322-350 resolve with zeros after a
\* failed read, part_008:97-121 rethrows the fault.
GetBalanceSettled(src, r, usdcBalance, displayValue) ==
    IF src = "part_008"
    THEN IF r = Ok
         THEN [threw |-> FALSE, error |-> Ok,
               value |-> [usdc |-> Div1e6Str(usdcBalance), native |-> "0"]]
         ELSE [threw |-> TRUE, error |-> r, value |-> NoValue]
    ELSE [threw |-> FALSE, error |-> Ok,
          value |-> GetBalanceResult(r, usdcBalance, displayValue)]

\* A consumer of useWeb3() calls getBalance: the guard throws, or the
\* balanceOf read is issued.
CallGetBalance ==
    /\ call.state = "none"
    /\ \E src \in GetBalanceSources :
          call' = IF GetBalanceGuardFails
                  THEN [state |-> "settled", src |-> src, holder |-> FALSE,
                        readFailed |-> FALSE, threw |-> TRUE,
                        error |-> NewError("NotConnected", <<"Wallet not connected">>),
                        value |-> NoValue]
                  ELSE [state |-> "reading", src |-> src, holder |-> TRUE]
    /\ UNCHANGED << variant, account, chainVars, chainNFTs, lines, inputVars, isProcessing,
                    renderedProcessing, executing, pc, faults, mint, pendingClaims, lastKey >>

\* The balanceOf read of the call settles.
CallSettles ==
    /\ call.state = "reading"
    /\ \E r \in {Ok} \cup ReadFaults, displayValue \in EthDisplayValues :
          LET res == GetBalanceSettled(call.src, r, chainBalance, displayValue)
          IN  call' = [state |-> "settled", src |-> call.src, holder |-> TRUE,
                       readFailed |-> (r # Ok), threw |-> res.threw,
                       error |-> res.error, value |-> res.value]
    /\ UNCHANGED << variant, account, chainVars, chainNFTs, lines, inputVars, isProcessing,
                    renderedProcessing, executing, pc, faults, mint, pendingClaims, lastKey >>

\* The consumer has taken the result.
CallDone ==
    /\ call.state \in {"settled", "classified", "parsed"}
    /\ call' = NoCall
    /\ UNCHANGED << variant, account, chainVars, chainNFTs, lines, inputVars, isProcessing,
                    renderedProcessing, executing, pc, faults, mint, pendingClaims, lastKey >>

BalanceNext ==
    \/ SessionChange
    \/ CallGetBalance
    \/ CallSettles
    \/ CallDone

\* getBalance applied to every holder state, ledger balance and read outcome.
BalanceSpec == Init /\ [][BalanceNext]_vars

\* ------------------------------------------------- the catch block of mintNFT
Writes == {"approve", "claim"}

\* What the catch block of mintNFT can receive from a write: the faults of
\* the send itself, and for the authorization write those of the wait for
\* its confirmation.
WriteFaults(w) ==
    IF w = "approve" THEN ApproveFaults \cup ReceiptFaults \cup {FUserDenied}
    ELSE ClaimFaults \cup {FEncoding, FUserDenied}

\* The catch block (part_006:275-315, Web3Context.tsx:163-179,
\* part_011:352-372) receives fault e raised by write w and throws what the
\* classifier makes of it.
CallClassify ==
    /\ call.state = "none"
    /\ \E w \in Writes : \E e \in WriteFaults(w) :
          call' = [state |-> "classified", write |-> w, fault |-> e,
                   result |-> Classify(variant, e)]
    /\ UNCHANGED << variant, account, chainVars, chainNFTs, lines, inputVars, isProcessing,
                    renderedProcessing, executing, pc, faults, mint, pendingClaims, lastKey >>

ClassifyNext ==
    \/ SessionChange
    \/ CallClassify
    \/ CallDone

\* The classifier of each source applied to every fault of every write.
ClassifySpec == Init /\ [][ClassifyNext]_vars

\* ------------------------------------------------- the keyword of executeCommand
\* Inputs given to executeCommand: those a user types, and some with other
\* letter cases, several spaces, tabs and arguments.
ParseInputs ==
    Inputs \cup
    { <<"H","E","L","P">>,
      <<"h","e","l","p"," "," ","m","e">>,
      <<"h","e","l","p","\t","m","e">>,
      <<"\t","m","i","n","t"," ">>,
      <<"M","i","n","t","\t","2">>,
      <<"h","e","l","p","m","e">>,
      <<"m","e"," ","h","e","l","p">> }

\* The case the switch of main.tsx:125-264 selects for keyword c
Dispatch(c) == IF c \in Recognized THEN c ELSE "unknown"

\* executeCommand(input) computes its keyword and selects the case
\* (main.tsx:109-125); a blank input returns before that.
CallParse ==
    /\ call.state = "none"
    /\ \E s \in ParseInputs :
          /\ ~IsBlank(s)
          /\ call' = [state |-> "parsed", input |-> s, command |-> Command(s),
                      action |-> Dispatch(Command(s))]
    /\ UNCHANGED << variant, account, chainVars, chainNFTs, lines, inputVars, isProcessing,
                    renderedProcessing, executing, pc, faults, mint, pendingClaims, lastKey >>

ParseNext ==
    \/ SessionChange
    \/ CallParse
    \/ CallDone

\* The keyword parser applied to every input.
ParseSpec == Init /\ [][ParseNext]_vars

\* ------------------------------------------------- mintNFT(quantity)
\* A JavaScript number passed as quantity: NaN, or a multiple of one half.
Quantity(h) == [nan |-> FALSE, halves |-> h]
NaN == [nan |-> TRUE, halves |-> 0]

\* The quantities mintNFT is called with: -1, 0, 0.5, 1, 1.5, 2, 100, 100.5,
\* 101 and NaN.
Quantities ==
    {Quantity(h) : h \in {-2, 0, 1, 2, 3, 4, 200, 201, 202}} \cup {NaN}

\* Amounts the balance and allowance reads can return.
AmountsRead ==
    {0, MINT_PRICE - 1, MINT_PRICE, 2 * MINT_PRICE - 1, 2 * MINT_PRICE,
     100 * MINT_PRICE - 1, 100 * MINT_PRICE}

\* a range guard that has lost its upper limit
QuantityOutOfRangeBelowOnly(q) == ~q.nan /\ q.halves < 2

\* part_006:114: quantity < 1 || quantity > 100 (both false for NaN)
QuantityOutOfRange(q) == ~q.nan /\ (q.halves < 2 \/ q.halves > 200)

\* part_006:118: BigInt(quantity) throws a RangeError unless quantity is an
\* integer
IsInteger(q) == ~q.nan /\ q.halves % 2 = 0
BigInt(q) == q.halves \div 2

\* part_006:118: const totalPrice = MINT_PRICE * BigInt(quantity)
totalPrice(q) == MINT_PRICE * BigInt(q)

NoAmount == -1

\* part_006:111-118: mintNFT(quantity) up to its try block
CallMintNFT ==
    /\ call.state = "none"
    /\ \E q \in Quantities :
          LET c == [state |-> "mintNFT:threw", quantity |-> q, remoteCalls |-> 0,
                    message |-> "", totalPrice |-> NoAmount,
                    balanceCompared |-> NoAmount, allowanceCompared |-> NoAmount,
                    approveAmount |-> NoAmount]
          IN  call' =
                IF ~account
                THEN [c EXCEPT !.message = "Wallet not connected"]
                ELSE IF QuantityOutOfRange(q)
                THEN [c EXCEPT !.message = "Quantity must be between 1 and 100"]
                ELSE IF ~IsInteger(q)
                THEN [c EXCEPT !.message = "RangeError"]
                ELSE [c EXCEPT !.state = "mintNFT:balanceOf",
                               !.totalPrice = totalPrice(q)]
    /\ UNCHANGED << variant, account, chainVars, chainNFTs, lines, inputVars, isProcessing,
                    renderedProcessing, executing, pc, faults, mint, pendingClaims, lastKey >>

\* part_006:137-147: the balance read and its comparison
MintNFTBalanceOf ==
    /\ call.state = "mintNFT:balanceOf"
    /\ \E ok \in BOOLEAN, balance \in AmountsRead :
          call' =
            IF ~ok
            THEN [call EXCEPT !.state = "mintNFT:threw", !.remoteCalls = @ + 1,
                              !.message = "Mint failed"]
            ELSE IF balance < call.totalPrice
            THEN [call EXCEPT !.state = "mintNFT:threw", !.remoteCalls = @ + 1,
                              !.balanceCompared = call.totalPrice,
                              !.message = "Insufficient USDC balance"]
            ELSE [call EXCEPT !.state = "mintNFT:allowance", !.remoteCalls = @ + 1,
                              !.balanceCompared = call.totalPrice]
    /\ UNCHANGED << variant, account, chainVars, chainNFTs, lines, inputVars, isProcessing,
                    renderedProcessing, executing, pc, faults, mint, pendingClaims, lastKey >>

\* part_006:151-173: the allowance read, its comparison, and the approve
\* transaction prepared with params [NFT_CONTRACT_ADDRESS, totalPrice]
MintNFTAllowance ==
    /\ call.state = "mintNFT:allowance"
    /\ \E ok \in BOOLEAN, allowance \in AmountsRead :
          call' =
            IF ~ok
            THEN [call EXCEPT !.state = "mintNFT:threw", !.remoteCalls = @ + 1,
                              !.message = "Mint failed"]
            ELSE IF allowance < call.totalPrice
            THEN [call EXCEPT !.state = "mintNFT:approve", !.remoteCalls = @ + 2,
                              !.allowanceCompared = call.totalPrice,
                              !.approveAmount = call.totalPrice]
            ELSE [call EXCEPT !.state = "mintNFT:claim", !.remoteCalls = @ + 1,
                              !.allowanceCompared = call.totalPrice]
    /\ UNCHANGED << variant, account, chainVars, chainNFTs, lines, inputVars, isProcessing,
                    renderedProcessing, executing, pc, faults, mint, pendingClaims, lastKey >>

\* The invocation is over, or has gone on to steps that use no amount.
MintNFTDone ==
    /\ call.state \in {"mintNFT:threw", "mintNFT:approve", "mintNFT:claim"}
    /\ call' = NoCall
    /\ UNCHANGED << variant, account, chainVars, chainNFTs, lines, inputVars, isProcessing,
                    renderedProcessing, executing, pc, faults, mint, pendingClaims, lastKey >>

QuantityNext ==
    \/ SessionChange
    \/ CallMintNFT
    \/ MintNFTBalanceOf
    \/ MintNFTAllowance
    \/ MintNFTDone

\* mintNFT of part_006 applied to every quantity.
QuantitySpec == Init /\ [][QuantityNext]_vars

\* ------------------------------------------------- the timestamps of the lines
\* The timestamps of the six banner lines created at clock reading t:
\* Date.now(), Date.now() + 1, ..., Date.now() + 5 (main.tsx:58-95, 139-176)
BannerStamps(t) == [i \in 1..6 |-> t + (i - 1)]

\* The start-up effect creates the banner (main.tsx:57-97).
StartUp ==
    /\ call.state = "none"
    /\ call' = [state |-> "transcript", now |-> 0, stamps |-> BannerStamps(0)]
    /\ UNCHANGED << variant, account, chainVars, chainNFTs, lines, inputVars, isProcessing,
                    renderedProcessing, executing, pc, faults, mint, pendingClaims, lastKey >>

\* A millisecond passes.
ClockTick ==
    /\ call.state = "transcript"
    /\ call.now < MaxNow
    /\ call' = [call EXCEPT !.now = @ + 1]
    /\ UNCHANGED << variant, account, chainVars, chainNFTs, lines, inputVars, isProcessing,
                    renderedProcessing, executing, pc, faults, mint, pendingClaims, lastKey >>

\* addLine appends a line stamped Date.now() (main.tsx:99-107).
AddLineStamp ==
    /\ call.state = "transcript"
    /\ Len(call.stamps) < MaxStamps
    /\ call' = [call EXCEPT !.stamps = Append(@, call.now)]
    /\ UNCHANGED << variant, account, chainVars, chainNFTs, lines, inputVars, isProcessing,
                    renderedProcessing, executing, pc, faults, mint, pendingClaims, lastKey >>

\* clear replaces the transcript by a new banner (main.tsx:138-178).
ClearStamps ==
    /\ call.state = "transcript"
    /\ call.stamps # BannerStamps(call.now)
    /\ call' = [call EXCEPT !.stamps = BannerStamps(call.now)]
    /\ UNCHANGED << variant, account, chainVars, chainNFTs, lines, inputVars, isProcessing,
                    renderedProcessing, executing, pc, faults, mint, pendingClaims, lastKey >>

ClockNext ==
    \/ StartUp
    \/ ClockTick
    \/ AddLineStamp
    \/ ClearStamps

\* The transcript reduced to the timestamps of its lines.
ClockSpec == Init /\ [][ClockNext]_vars

Next ==
    \/ SessionChange
    \/ ChainMinesApprove
    \/ ChainMinesClaim
    \/ Render
    \/ TypeInput
    \/ KeyArrowUp
    \/ KeyArrowDown
    \/ KeyEnterNoop
    \/ EnterHelp
    \/ EnterClear
    \/ EnterUnknown
    \/ EnterConnect
    \/ ConnectTimer
    \/ ConnectDelay
    \/ EnterMint
    \/ MintBalanceOf
    \/ MintAllowance
    \/ MintApprove
    \/ MintReceipt
    \/ MintSleep
    \/ MintClaim
    \/ MintFallback
    \/ EnterBalance
    \/ BalanceSettles
    \/ EnterNfts
    \/ NftsSettles

Spec == Init /\ [][Next]_vars

\* Remote operations settle, timers fire and React renders: every step of a
\* running command that is enabled is eventually taken.
Settles ==
    \/ ConnectTimer \/ ConnectDelay
    \/ MintBalanceOf \/ MintAllowance \/ MintApprove \/ MintReceipt \/ MintSleep
    \/ MintClaim \/ MintFallback
    \/ BalanceSettles \/ NftsSettles

FairSpec == Spec /\ WF_vars(Settles) /\ WF_vars(Render)

\* ================================================================ claims
IsPrefix(a, b) == Len(a) <= Len(b) /\ SubSeq(b, 1, Len(a)) = a

\* An Enter that executeCommand accepted is the only step that changes the
\* command history.
Submitted == commandHistory' # commandHistory

Taxonomy ==
    {"NotConnected", "InsufficientFunds", "UserRejected", "ConfirmationTimeout",
     "NoActiveOffer", "LimitExceeded", "RemoteRejected", "Unknown"}

\* The lines appended since the echo of the last command.
LastCommandLine ==
    IF \E i \in 1..Len(lines) : lines[i].type = "command"
    THEN CHOOSE i \in 1..Len(lines) :
            /\ lines[i].type = "command"
            /\ \A j \in (i + 1)..Len(lines) : lines[j].type # "command"
    ELSE 0

ErrorLineSinceCommand ==
    \E i \in (LastCommandLine + 1)..Len(lines) : lines[i].type = "error"

\* C1: single flight.  At most one executeCommand is between
\* setIsProcessing(true) and its finally block; while isProcessing is true no
\* step records a command (history unchanged), none starts another action,
\* and the transcript changes only when the running action itself finishes.
C1_SingleFlight ==
    [][ /\ executing' <= 1
        /\ isProcessing =>
              /\ commandHistory' = commandHistory
              /\ executing' <= executing
              /\ lines' # lines => (pc # "idle" /\ pc' = "idle" /\ executing' = 0) ]_vars

\* C1 witness: a mint is suspended at the claim write while the keyboard
\* guard holds, so key events arrive during the running action.
C1_Witness ==
    /\ isProcessing /\ renderedProcessing /\ executing = 1
    /\ pc = "mint:claim" /\ Len(commandHistory) < MaxCommands

\* C2 (as claimed): a mint invocation submits at most one authorization write
\* and at most one claim write, whatever the remote operations do.
C2_AtMostOneWriteEach == mint.approveWrites <= 1 /\ mint.claimWrites <= 1

\* The error says that the balance is insufficient.
InsufficientFundsReported(e) ==
    \/ e.category = "InsufficientFunds"
    \/ Includes(e.msg, <<"Insufficient ", "USDC balance">>)

\* C3 (as claimed): when the holder's balance is below the required amount,
\* mint submits no write, and, once the balance was read, fails with an
\* insufficient-funds error.
C3_ShortBalanceNoWrites ==
    (mint.invoked /\ mint.chainBalanceAtStart < TotalPrice) =>
        /\ mint.approveWrites = 0 /\ mint.claimWrites = 0
        /\ mint.outcome # "returned"
        /\ (mint.outcome = "threw" /\ mint.balanceRead # -1)
              => InsufficientFundsReported(mint.error)

\* C4 (as claimed): with a sufficient balance and an allowance of at least the
\* required amount, mint submits no authorization write and, when it
\* returns, has submitted exactly one claim write.
C4_NoApproveWhenAllowed ==
    (mint.invoked /\ mint.chainBalanceAtStart >= TotalPrice
                  /\ mint.chainAllowanceAtStart >= TotalPrice) =>
        /\ mint.approveWrites = 0
        /\ mint.outcome = "returned" => mint.claimWrites = 1

\* C5 (as claimed): sufficient balance, no prior allowance, every remote
\* operation succeeds: one authorization write for exactly the required
\* amount, its confirmation observed before the single claim write, and the
\* hash returned is the claim's.
C5_ApproveConfirmClaim ==
    (mint.outcome = "returned" /\ faults = 0
        /\ mint.chainBalanceAtStart >= TotalPrice /\ mint.chainAllowanceAtStart = 0) =>
        /\ mint.approveWrites = 1 /\ mint.approveAmount = TotalPrice
        /\ mint.confirmationObserved /\ ~mint.claimedUnconfirmed
        /\ mint.claimWrites = 1
        /\ mint.hash = ClaimHash

C7_AppendOnly ==
    [][ IF Submitted /\ Command(currentInput) = "clear"
        THEN lines' = WelcomeLines
        ELSE IsPrefix(lines, lines') ]_vars

\* C7 witness: a clear submitted after another command that had appended lines.
C7_Witness ==
    /\ Len(commandHistory) = 2
    /\ Command(commandHistory[1]) = "help"
    /\ Command(commandHistory[2]) = "clear"
    /\ lines = WelcomeLines

\* The step in which mintNFT or connectWallet throws into executeCommand
\* appends an Error line and resets isProcessing.  (getBalance and getNFTs
\* never throw after their guard: they resolve with zeros or the empty list.)
C8_FailureReported ==
    (faults' > faults /\ pc' = "idle" /\ pc \notin {"balance:balanceOf", "nfts:balanceOf"})
        => /\ ~isProcessing' /\ executing' = 0
           /\ IsPrefix(lines, lines')
           /\ Len(lines') = Len(lines) + 2
           /\ lines'[Len(lines) + 1].type = "error"

\* C8: the console remains usable after any failure.  A failure thrown by an
\* action is turned into an Error line in the step that receives it and
\* isProcessing is reset there (nothing escapes executeCommand); a busy
\* dispatcher always comes back to idle with the keyboard guard open, also
\* after a mint that threw, so that the next Enter is accepted.
C8_UsableAfterFailure ==
    /\ [][C8_FailureReported]_vars
    /\ (isProcessing ~> (~isProcessing /\ ~renderedProcessing /\ pc = "idle"))
    /\ (mint.outcome = "threw" ~> (~renderedProcessing /\ pc = "idle"))

\* C8 witness: a mint failed and the next command was accepted and executed.
C8_Witness ==
    /\ Len(commandHistory) = 2
    /\ Command(commandHistory[1]) = "mint"
    /\ Command(commandHistory[2]) = "help"
    /\ mint.outcome = "threw"
    /\ lines[Len(lines)] = HelpLines[Len(HelpLines)]
    /\ ~isProcessing /\ ~renderedProcessing

\* C9 (as claimed): when the dispatcher is back to idle after a command
\* during which a remote operation failed, an Error line was appended for it.
C9_NoErrorDropped ==
    (pc = "idle" /\ faults > 0) => ErrorLineSinceCommand

\* C10 (as claimed): what mint throws is never the remote layer's raw fault
\* and carries a category of the closed taxonomy.
C10_ClassifiedOnly ==
    mint.outcome = "threw" =>
        /\ ~mint.error.raw
        /\ mint.error.category \in Taxonomy

\* C11 (as claimed): whenever mint has submitted an authorization write and a
\* claim write, the claim write was submitted after the confirmation of the
\* authorization write had been observed.
C11_ClaimAfterConfirmation ==
    (mint.approveWrites > 0 /\ mint.claimWrites > 0) =>
        /\ mint.confirmationObserved
        /\ ~mint.claimedUnconfirmed

\* C12 (as claimed): when the wait for the confirmation of the authorization
\* write ended without the confirmation, mint has thrown an error of category
\* ConfirmationTimeout, has submitted no claim write and has not repeated the
\* authorization write.
C12_TimeoutSurfaced ==
    mint.confirmationTimedOut =>
        /\ mint.outcome = "threw"
        /\ mint.error.category = "ConfirmationTimeout"
        /\ mint.claimWrites = 0
        /\ mint.approveWrites = 1

\* C13 (as claimed): mint has returned a hash (and the mint command has
\* appended its success lines) only when the claim write is confirmed.
C13_ReturnAfterClaimConfirmed ==
    mint.outcome = "returned" => mint.claimStatus = "confirmed"

\* The lines a step appended to the transcript.
Appended == SubSeq(lines', Len(lines) + 1, Len(lines'))

ErrorLinesIn(ls) == {i \in 1..Len(ls) : ls[i].type = "error"}

\* C14: with no wallet connected, submitting mint, balance or nfts appends
\* exactly one Error line, the fixed message "Wallet not connected. Run
\* 'connect' first.", ends inside the key event with the dispatcher idle and
\* makes no remote call: mintNFT, getBalance and getNFTs are not invoked and
\* the ledger is untouched.
C14_NotConnectedCommands ==
    [][ (Submitted /\ ~account /\ Command(currentInput) \in {"mint", "balance", "nfts"}) =>
            /\ IsPrefix(lines, lines')
            /\ Cardinality(ErrorLinesIn(Appended)) = 1
            /\ \E i \in ErrorLinesIn(Appended) :
                  Appended[i].text = "Wallet not connected. Run 'connect' first."
            /\ pc' = "idle" /\ ~isProcessing' /\ executing' = 0
            /\ IF Command(currentInput) = "mint"
               THEN ~mint'.invoked /\ mint'.reads = 0
               ELSE mint' = mint
            /\ UNCHANGED << chainVars, chainNFTs, pendingClaims >> ]_vars

\* C14 witness: balance and nfts were both submitted with no wallet and each
\* left one Error line.
C14_Witness ==
    /\ Len(commandHistory) = 2
    /\ Command(commandHistory[1]) = "balance"
    /\ Command(commandHistory[2]) = "nfts"
    /\ ~account /\ pc = "idle" /\ ~isProcessing
    /\ Cardinality(ErrorLinesIn(lines)) = 2
    /\ lines[Len(lines) - 1].text = "Wallet not connected. Run 'connect' first."

\* C15: Enter on an empty or whitespace-only buffer changes nothing: the
\* transcript, the command history, the history cursor, the busy state and
\* the buffer itself stay as they were and no action starts.
C15_BlankEnterNoop ==
    [][ (lastKey' = "Enter" /\ Trim(currentInput) = <<>>) =>
            UNCHANGED << lines, commandHistory, historyIndex, isProcessing,
                         currentInput, executing, pc, mint >> ]_vars

\* C15 witness: Enter was pressed on a buffer of two spaces after an earlier
\* command, with the keyboard guard open.
C15_Witness ==
    /\ lastKey = "Enter"
    /\ currentInput = <<" ", " ">>
    /\ Len(commandHistory) = 1
    /\ ~renderedProcessing /\ ~isProcessing

\* The six keywords of executeCommand's switch.
Keywords == {"connect", "mint", "balance", "nfts", "clear", "help"}

HintLine == Line("output", "Type 'help' for available commands")

\* C16 (as claimed): an input whose keyword is not recognized appends the
\* Command line "> <input>", the Error line "Command not found: <token>" and
\* the hint line, and nothing else; the history gains the input.
C16_UnknownThreeLines ==
    [][ (Submitted /\ Command(currentInput) \notin Keywords) =>
            /\ lines' = lines \o << Line("command", "> " \o Join(currentInput)),
                                    Line("error", "Command not found: " \o Command(currentInput)),
                                    HintLine >>
            /\ commandHistory' = Append(commandHistory, currentInput) ]_vars

\* C16 (amended): such an input appends exactly four lines: the Command line
\* "> <trimmed input>", the Error line "Command not found: <token>" where
\* the token is the lower-cased text of the trimmed input before its first
\* space, the hint line and one empty Output line; the history gains the
\* trimmed input; no remote call is made and the dispatcher stays idle.
C16_UnknownFourLines ==
    [][ (Submitted /\ Command(currentInput) \notin Keywords) =>
            /\ lines' = lines \o << Line("command", "> " \o Join(Trim(currentInput))),
                                    Line("error", "Command not found: " \o Command(currentInput)),
                                    HintLine,
                                    Line("output", "") >>
            /\ currentInput = <<"F", "o", "o", " ", "b">> =>
                  /\ lines'[Len(lines) + 1].text = "> Foo b"
                  /\ lines'[Len(lines) + 2].text = "Command not found: foo"
            /\ commandHistory' = Append(commandHistory, Trim(currentInput))
            /\ pc' = "idle" /\ ~isProcessing' /\ mint' = mint
            /\ UNCHANGED << chainVars, chainNFTs, pendingClaims >> ]_vars

\* C16 witness: "Foo b" was submitted and reported as the unknown command foo.
C16_Witness ==
    /\ Len(commandHistory) >= 1
    /\ commandHistory[Len(commandHistory)] = <<"F", "o", "o", " ", "b">>
    /\ Len(lines) >= 4
    /\ lines[Len(lines) - 2] = Line("error", "Command not found: foo")
    /\ lines[Len(lines) - 1] = HintLine
    /\ pc = "idle"

\* C17: submitting clear, after any earlier commands, leaves exactly the six
\* welcome banner lines (no echo of clear among them), keeps every earlier
\* history entry in place, makes no remote call and leaves the dispatcher idle.
C17_ClearKeepsHistory ==
    [][ (Submitted /\ Command(currentInput) = "clear") =>
            /\ lines' = WelcomeLines
            /\ Len(lines') = 6
            /\ \A i \in 1..Len(lines') : lines'[i].type = "info"
            /\ Len(commandHistory') = Len(commandHistory) + 1
            /\ SubSeq(commandHistory', 1, Len(commandHistory)) = commandHistory
            /\ pc' = "idle" /\ ~isProcessing' /\ mint' = mint
            /\ UNCHANGED << chainVars, chainNFTs, pendingClaims >> ]_vars

\* C17 witness: clear was submitted after an nfts command that had printed
\* lines; the transcript is the banner and the history holds both entries.
C17_Witness ==
    /\ Len(commandHistory) = 2
    /\ Command(commandHistory[1]) = "nfts"
    /\ Command(commandHistory[2]) = "clear"
    /\ lines = WelcomeLines
    /\ lastKey = "Enter"

\* C18 (as claimed): an accepted Enter echoes the raw input in one Command
\* line placed before the action's lines, appends the raw input to the
\* history and resets the cursor to -1.
C18_SubmitRecordsRawInput ==
    [][ Submitted =>
            /\ commandHistory' = Append(commandHistory, currentInput)
            /\ historyIndex' = -1
            /\ Command(currentInput) # "clear" =>
                  IsPrefix(lines \o << Line("command", "> " \o Join(currentInput)) >>, lines') ]_vars

\* C18 (amended): an accepted Enter echoes the trimmed input in exactly one
\* Command line, placed before every line of the action, appends the trimmed
\* input as the last history entry (duplicates allowed), resets the cursor to
\* -1 and empties the buffer; an action that suspends leaves the dispatcher
\* busy.  (For clear the echo goes with the rest of the transcript.)
C18_SubmitRecordsTrimmedInput ==
    [][ Submitted =>
            /\ commandHistory' = Append(commandHistory, Trim(currentInput))
            /\ historyIndex' = -1
            /\ currentInput' = <<>>
            /\ lastKey' = "Enter" /\ ~isProcessing
            /\ pc' # "idle" => (isProcessing' /\ renderedProcessing' /\ executing' = 1)
            /\ Command(currentInput) # "clear" =>
                  /\ IsPrefix(lines \o << Line("command", "> " \o Join(Trim(currentInput))) >>,
                              lines')
                  /\ \A i \in 2..Len(Appended) : Appended[i].type # "command" ]_vars

\* C18 witness: " MINT x " was submitted twice; the history holds "MINT x"
\* twice and the second mint is suspended at its first remote call.
C18_Witness ==
    /\ commandHistory = << <<"M", "I", "N", "T", " ", "x">>, <<"M", "I", "N", "T", " ", "x">> >>
    /\ historyIndex = -1
    /\ isProcessing /\ pc \in {"mint:balanceOf", "mint:allowance"}
    /\ lines[Len(lines) - 3] = Line("command", "> MINT x")

\* C19: ArrowUp handled while idle changes only the cursor and the buffer.
\* With an empty history it changes nothing.  Otherwise the cursor goes from
\* -1 to the newest entry, from any other entry one step toward the oldest,
\* and stays at the oldest; the buffer becomes the entry under the cursor, so
\* a further ArrowUp at the oldest entry leaves cursor and buffer unchanged.
C19_ArrowUp ==
    [][ (lastKey' = "ArrowUp" /\ ~renderedProcessing) =>
            /\ UNCHANGED << lines, commandHistory, isProcessing, pc >>
            /\ IF Len(commandHistory) = 0
               THEN UNCHANGED << historyIndex, currentInput >>
               ELSE /\ historyIndex' = (IF historyIndex = -1 THEN Len(commandHistory) - 1
                                        ELSE IF historyIndex = 0 THEN 0
                                        ELSE historyIndex - 1)
                    /\ currentInput' = commandHistory[historyIndex' + 1]
                    /\ (historyIndex = 0 /\ lastKey = "ArrowUp") =>
                          UNCHANGED << historyIndex, currentInput >> ]_vars

\* C19 witness: with two entries in the history ArrowUp has reached the oldest.
C19_Witness ==
    /\ lastKey = "ArrowUp" /\ ~renderedProcessing
    /\ Len(commandHistory) = 2
    /\ historyIndex = 0
    /\ currentInput = commandHistory[1]
    /\ commandHistory[1] # commandHistory[2]

\* C20: ArrowDown handled while idle changes only the cursor and the buffer.
\* While browsing it moves the cursor one entry toward the newest and copies
\* that entry into the buffer; from the newest entry the cursor becomes -1
\* and the buffer is emptied; at -1 it changes nothing, so the emptied
\* buffer stays empty.
C20_ArrowDown ==
    [][ (lastKey' = "ArrowDown" /\ ~renderedProcessing) =>
            /\ UNCHANGED << lines, commandHistory, isProcessing, pc >>
            /\ IF historyIndex = -1
               THEN UNCHANGED << historyIndex, currentInput >>
               ELSE IF historyIndex + 1 < Len(commandHistory)
               THEN /\ historyIndex' = historyIndex + 1
                    /\ currentInput' = commandHistory[historyIndex + 2]
               ELSE /\ historyIndex' = -1
                    /\ currentInput' = <<>> ]_vars

\* C20 witness: ArrowDown moved the cursor from the oldest of two entries to
\* the newest.
C20_Witness ==
    /\ lastKey = "ArrowDown" /\ ~renderedProcessing
    /\ Len(commandHistory) = 2
    /\ historyIndex = 1
    /\ currentInput = commandHistory[2]
    /\ commandHistory[1] # commandHistory[2]

\* C21: while a command is executing, an ArrowUp or ArrowDown key event
\* changes neither the history cursor nor the input buffer (nor anything else
\* of the console), although the history is not empty.
C21_ArrowsDisabledWhileExecuting ==
    [][ (lastKey' \in {"ArrowUp", "ArrowDown"} /\ executing > 0) =>
            /\ Len(commandHistory) > 0
            /\ UNCHANGED << historyIndex, currentInput, commandHistory, lines,
                            isProcessing, executing, pc, mint >> ]_vars

\* C21 witness: ArrowUp arrived while a balance command was waiting for its
\* read, with two entries in the history, and the cursor is still -1.
C21_Witness ==
    /\ lastKey = "ArrowUp"
    /\ executing = 1 /\ pc = "balance:balanceOf"
    /\ Len(commandHistory) = 2
    /\ historyIndex = -1 /\ currentInput = <<>>

\* C22 (as claimed): while a command is executing the input element accepts
\* character input.
C22_InputAcceptedWhileExecuting == executing > 0 => ~InputDisabled

\* C22 (amended): while a command is executing the input element is disabled
\* and no step changes the buffer, the history or the cursor: character
\* input is not accepted and Enter, ArrowUp and ArrowDown are ignored, until
\* the command has ended.
C22_InputDisabledWhileExecuting ==
    [][ executing > 0 =>
            /\ InputDisabled /\ KeyIgnored
            /\ UNCHANGED << currentInput, commandHistory, historyIndex >>
            /\ lastKey' # "none" => UNCHANGED << lines, isProcessing, executing, pc, mint >> ]_vars

\* C22 witness: Enter arrived while a mint was waiting for its claim write
\* and was ignored.
C22_Witness ==
    /\ lastKey = "Enter"
    /\ executing = 1 /\ pc = "mint:claim"
    /\ InputDisabled
    /\ currentInput = <<>> /\ Len(commandHistory) = 1

\* The remote calls a mint invocation has issued so far.
RemoteCalls(m) == m.reads + m.approveWrites + m.claimWrites

\* C23 (as claimed): once the wallet session is null at a suspension point of
\* a running mint, the step that resumes the command issues no further
\* remote call (no read, no authorization write, no claim write), and when
\* the command ends there it ends with the not-connected failure instead of
\* a transaction hash.
C23_NoRemoteCallAfterDisconnect ==
    [][ (~account /\ mint.outcome = "running" /\ pc # pc') =>
            /\ RemoteCalls(mint') = RemoteCalls(mint)
            /\ mint'.outcome # "returned" ]_vars

\* Two balance commands were submitted by a connected wallet, one after the
\* other, and both have printed their balances: the transcript is the banner
\* followed by two blocks of seven lines (echo, empty line, "Fetching
\* balances...", empty line, USDC line, ETH line, empty line).  No mint was
\* started, so nothing was written to the ledger in between.
BalanceTwice ==
    /\ Len(commandHistory) = 2
    /\ Command(commandHistory[1]) = "balance"
    /\ Command(commandHistory[2]) = "balance"
    /\ pc = "idle"
    /\ Len(lines) = Len(WelcomeLines) + 14

\* The USDC line and the ETH line of the k-th of these two blocks.
BalanceLinesOf(k) ==
    << lines[Len(WelcomeLines) + 7 * (k - 1) + 5], lines[Len(WelcomeLines) + 7 * (k - 1) + 6] >>

\* C24 (as claimed): two balance commands with no write to the ledger in
\* between print the same USDC line and the same ETH line.
C24_BalanceTwiceIdentical ==
    BalanceTwice => BalanceLinesOf(1) = BalanceLinesOf(2)

\* C25 (as claimed): mint sends the manually encoded claim only after the
\* structured claim failed for an encoding-specific reason; after any other
\* failure of the structured claim there is no second claim submission.
C25_FallbackOnlyOnEncodingFailure ==
    /\ mint.claimWrites > 1 => mint.structuredFailure = "encoding"
    /\ mint.structuredFailure = "other" => mint.claimWrites = 1

\* C26 (as claimed): getBalance never throws; with the holder unset and
\* after a failed read it resolves with a zero balance.
C26_BalanceReadNeverThrows ==
    call.state = "settled" =>
        /\ ~call.threw
        /\ (~call.holder \/ call.readFailed) => call.value.usdc \in {"0.00", "0"}

\* The phase of a mint invocation m whose command is at suspension point p:
\* 1 CheckingBalance, 2 CheckingAllowance, 3 Approving,
\* 4 AwaitingApprovalConfirmation, 5 Claiming (the structured claim and the
\* manually encoded one, both step [5/5] of part_006), 6 Done, 7 Failed;
\* 0 when no invocation was started.
PhaseRank(m, p) ==
    CASE m.outcome = "returned" -> 6
      [] m.outcome = "threw" -> 7
      [] m.outcome = "running" /\ p = "mint:balanceOf" -> 1
      [] m.outcome = "running" /\ p = "mint:allowance" -> 2
      [] m.outcome = "running" /\ p = "mint:approve" -> 3
      [] m.outcome = "running" /\ p \in {"mint:receipt", "mint:sleep"} -> 4
      [] m.outcome = "running" /\ p \in {"mint:claim", "mint:fallback"} -> 5
      [] OTHER -> 0

\* C27: within one mint invocation (every step but the submission of a new
\* command) the phase never goes back; whenever the invocation moves to
\* another suspension point its phase is a later one (only the manually
\* encoded claim stays in Claiming), so no phase is entered twice; Done is
\* entered from Claiming only; and once the invocation is Done or Failed it
\* stays so and issues no further remote call.
C27_PhasesForward ==
    [][ (~Submitted /\ mint.invoked) =>
            /\ PhaseRank(mint', pc') >= PhaseRank(mint, pc)
            /\ (mint.outcome = "running" /\ pc' # pc) =>
                  \/ PhaseRank(mint', pc') > PhaseRank(mint, pc)
                  \/ pc = "mint:claim" /\ pc' = "mint:fallback"
            /\ (PhaseRank(mint', pc') = 6 /\ PhaseRank(mint, pc) # 6) => PhaseRank(mint, pc) = 5
            /\ mint.outcome \in {"returned", "threw"} =>
                  /\ mint'.outcome = mint.outcome
                  /\ RemoteCalls(mint') = RemoteCalls(mint)
                  /\ pc' \notin {"mint:balanceOf", "mint:allowance", "mint:approve",
                                 "mint:receipt", "mint:sleep", "mint:claim",
                                 "mint:fallback"} ]_vars

\* C27 witness: an invocation went through every phase (balance read,
\* allowance read, authorization write, observed confirmation, claim) and is
\* Done.
C27_Witness ==
    /\ PhaseRank(mint, pc) = 6
    /\ mint.reads = 2 /\ mint.approveWrites = 1 /\ mint.confirmationObserved
    /\ mint.claimWrites = 1

\* What the claim calls the signatures of a raw fault.
SignerRejection(e) == e.code = 4001
CarriesNoActive(e) == Includes(e.msg, <<"DropNoActiveCondition">>)
CarriesExceedLimit(e) == Includes(e.msg, <<"DropClaimExceedLimit">>)
\* A revert whose reason is none of the signatures a classifier looks for.
PlainRevert(e) == e = FRevert
\* A fault that matches no pattern of any classifier.
NoPattern(e) == e \in {FNetwork, FTimeout, FEncoding}

\* C28 (as claimed): the category mint gives to a raw fault depends on the
\* fault only: signer rejection is UserRejected, DropNoActiveCondition is
\* NoActiveOffer, DropClaimExceedLimit is LimitExceeded, a plain execution
\* revert is RemoteRejected and a fault matching no pattern is Unknown,
\* whichever write raised it.
C28_ClassificationByFault ==
    call.state = "classified" =>
        LET e == call.fault
            c == call.result.category
        IN  /\ SignerRejection(e) => c = "UserRejected"
            /\ CarriesNoActive(e) => c = "NoActiveOffer"
            /\ CarriesExceedLimit(e) => c = "LimitExceeded"
            /\ PlainRevert(e) => c = "RemoteRejected"
            /\ NoPattern(e) => c = "Unknown"

\* C29 (as claimed): mint reports LimitExceeded only for a fault that says
\* the caller has claimed the maximum quantity (DropClaimExceedLimit).
C29_LimitExceededOnlyForLimit ==
    (call.state = "classified" /\ call.result.category = "LimitExceeded")
        => CarriesExceedLimit(call.fault)

RECURSIVE UpToSpace(_)
UpToSpace(s) == IF s = <<>> \/ IsSpace(Head(s)) THEN <<>> ELSE <<Head(s)>> \o UpToSpace(Tail(s))

\* The first whitespace-delimited token of an input.
FirstToken(s) == UpToSpace(TrimLeft(s))

\* C30 (as claimed): the action an input is dispatched to is its first
\* whitespace-delimited token in lower case when that is one of the six
\* keywords, whatever whitespace or arguments follow, and Unknown otherwise.
C30_KeywordIsFirstToken ==
    call.state = "parsed" =>
        LET t == Join(ToLowerCase(FirstToken(call.input)))
        IN  call.action = IF t \in Keywords THEN t ELSE "unknown"

\* C31 (as claimed): the timestamps of the lines of every reachable
\* transcript are non-decreasing in transcript order.
C31_TimestampsNonDecreasing ==
    call.state = "transcript" =>
        \A i \in 1..(Len(call.stamps) - 1) : call.stamps[i] <= call.stamps[i + 1]

\* C32: when the authorization write of a mint is rejected by the signer or
\* fails, the invocation ends there: mintNFT throws, the command reports one
\* Error line and becomes idle, no claim write was or is submitted and
\* nothing is left pending on the ledger.
C32_ApproveFailureNoClaim ==
    [][ (pc = "mint:approve" /\ faults' > faults) =>
            /\ mint'.outcome = "threw"
            /\ mint'.claimWrites = 0 /\ mint'.approveWrites = mint.approveWrites
            /\ pc' = "idle" /\ ~isProcessing'
            /\ IsPrefix(lines, lines')
            /\ Cardinality(ErrorLinesIn(Appended)) = 1
            /\ pendingClaims' = pendingClaims
            /\ UNCHANGED << chainVars, chainNFTs >> ]_vars

\* C32 witness: the signer rejected the authorization write of a mint; the
\* invocation has thrown with one authorization write and no claim write.
C32_Witness ==
    /\ mint.outcome = "threw"
    /\ mint.approveWrites = 1 /\ mint.claimWrites = 0
    /\ mint.error.category = "UserRejected"
    /\ ~mint.confirmationTimedOut
    /\ pc = "idle"

\* C33: the history cursor is -1 or an index of an entry of the command
\* history (0 <= historyIndex < commandHistory.length) in every reachable
\* state, and while it is not -1 the buffer a key left behind is an entry.
C33_CursorValid ==
    /\ historyIndex \in (-1)..(Len(commandHistory) - 1)
    /\ currentInput # Undefined

\* C33 witness: after two submissions ArrowUp, ArrowUp and ArrowDown have
\* left the cursor on the newest of two entries.
C33_Witness ==
    /\ Len(commandHistory) = 2
    /\ historyIndex = Len(commandHistory) - 1
    /\ lastKey = "ArrowDown"
    /\ currentInput = commandHistory[2]

\* The number of ArrowUp presses that lead from cursor -1 to cursor index in
\* a history of len entries: 0 at -1, 1 on the newest entry, len on the oldest.
HistoryDepth(index, len) == IF index = -1 THEN 0 ELSE len - index

\* The k-th most recent entry of the history.
KthMostRecent(history, k) == history[Len(history) - k + 1]

\* C34: navigation round trip, step by step.  In a history of n >= 1
\* entries an ArrowUp handled at depth k leads to depth k + 1 (and stays at
\* n) with the buffer holding the entry of that depth, so k presses from
\* cursor -1 show the k-th most recent entry; an ArrowDown handled at depth
\* k >= 1 leads to depth k - 1, with the entry of that depth in the buffer,
\* or at depth 0 with cursor -1 and an empty buffer, so k presses undo k
\* ArrowUp presses.  After a navigation step that leaves the cursor
\* different from -1 the buffer is the entry under the cursor.
C34_NavigationRoundTrip ==
    [][ LET n == Len(commandHistory)
            k == HistoryDepth(historyIndex, n)
            k2 == HistoryDepth(historyIndex', n)
        IN  (~renderedProcessing /\ n >= 1) =>
              /\ lastKey' = "ArrowUp" =>
                    /\ k2 = (IF k < n THEN k + 1 ELSE n)
                    /\ currentInput' = KthMostRecent(commandHistory, k2)
              /\ (lastKey' = "ArrowDown" /\ k >= 1) =>
                    /\ k2 = k - 1
                    /\ IF k2 = 0 THEN historyIndex' = -1 /\ currentInput' = <<>>
                       ELSE currentInput' = KthMostRecent(commandHistory, k2)
              /\ (lastKey' \in {"ArrowUp", "ArrowDown"} /\ historyIndex' # -1) =>
                    currentInput' = commandHistory[historyIndex' + 1] ]_vars

\* C34 witness: in the history <<help, foo>> two ArrowUp presses have led to
\* the second most recent entry, help.
C34_Witness ==
    /\ lastKey = "ArrowUp"
    /\ commandHistory = << <<"h","e","l","p">>, <<"f","o","o">> >>
    /\ HistoryDepth(historyIndex, Len(commandHistory)) = 2
    /\ currentInput = <<"h","e","l","p">>

\* C35: every entry of the command history is non-empty and has no leading
\* or trailing whitespace (so none is whitespace-only), and every step keeps
\* the history as it is or appends one entry: nothing, clear included,
\* removes or rewrites an entry.
C35_HistoryTrimmedAndGrowing ==
    /\ [](\A i \in 1..Len(commandHistory) :
             /\ commandHistory[i] # <<>>
             /\ ~IsSpace(commandHistory[i][1])
             /\ ~IsSpace(commandHistory[i][Len(commandHistory[i])])
             /\ Trim(commandHistory[i]) = commandHistory[i])
    /\ [][ /\ IsPrefix(commandHistory, commandHistory')
           /\ Len(commandHistory') <= Len(commandHistory) + 1 ]_vars

\* C35 witness: " MINT x " was submitted and then clear; the history holds
\* "MINT x" and "clear" while the transcript is the banner again.
C35_Witness ==
    /\ commandHistory = << <<"M", "I", "N", "T", " ", "x">>, <<"c","l","e","a","r">> >>
    /\ lines = WelcomeLines

\* C36 (as claimed): connect submitted with a connected wallet appends,
\* after its echo, Info lines only.
C36_OnlyInfoLines ==
    [][ (Submitted /\ Command(currentInput) = "connect" /\ account) =>
            \A i \in 2..Len(Appended) : Appended[i].type = "info" ]_vars

\* C36 (amended): connect submitted with a connected wallet does not call
\* connectWallet (the command ends inside the key event, idle) and appends
\* no Error line: after its echo it appends an empty Output line, the two
\* Info lines reporting the existing connection and an empty Output line.
C36_AlreadyConnected ==
    [][ (Submitted /\ Command(currentInput) = "connect" /\ account) =>
            /\ IsPrefix(lines, lines')
            /\ Appended = << Line("command", "> " \o Join(Trim(currentInput))),
                             Line("output", ""),
                             Line("info", "Already connected: 0x1234...abcd"),
                             Line("info", "Chain ID: 8453 (Base)"),
                             Line("output", "") >>
            /\ ErrorLinesIn(Appended) = {}
            /\ pc' = "idle" /\ ~isProcessing' /\ executing' = 0
            /\ account' /\ mint' = mint
            /\ UNCHANGED << chainVars, chainNFTs, pendingClaims >> ]_vars

\* C36 witness: connect was submitted by a connected wallet and reported the
\* existing connection.
C36_Witness ==
    /\ Len(commandHistory) >= 1
    /\ Command(commandHistory[Len(commandHistory)]) = "connect"
    /\ account /\ pc = "idle" /\ lastKey = "Enter"
    /\ lines[Len(lines) - 1] = Line("info", "Chain ID: 8453 (Base)")

\* C37: the line "Wallet connected successfully" is appended only when the
\* wallet session is connected at that moment; a connect request that ends
\* without a session appends no success line.
C37_SuccessOnlyWhenConnected ==
    [][ (\E i \in 1..Len(lines') :
            /\ i > Len(lines)
            /\ lines'[i] = Line("info", CheckMark \o "Wallet connected successfully"))
        => account' ]_vars

\* The lines appended since the echo of the last command.
SinceLastCommand == SubSeq(lines, LastCommandLine + 1, Len(lines))

SuccessLinesIn(ls) ==
    {i \in 1..Len(ls) : ls[i] = Line("info", CheckMark \o "NFT minted successfully")}

\* C38: a mint command submitted with a connected wallet appends neither a
\* success line nor an Error line while mintNFT is running, and once it has
\* ended its part of the transcript holds exactly one of: the success line
\* followed by the line carrying the returned transaction hash and no Error
\* line, or exactly one Error line and no success line.
C38_MintOneOutcome ==
    LET tail == SinceLastCommand
        errs == ErrorLinesIn(tail)
        succ == SuccessLinesIn(tail)
    IN  ( /\ Len(commandHistory) >= 1
          /\ Command(commandHistory[Len(commandHistory)]) = "mint"
          /\ mint.invoked ) =>
            IF pc # "idle"
            THEN errs = {} /\ succ = {} /\ mint.outcome = "running"
            ELSE \/ /\ mint.outcome = "returned"
                    /\ errs = {}
                    /\ Cardinality(succ) = 1
                    /\ \A i \in succ :
                          /\ i < Len(tail)
                          /\ tail[i + 1] = Line("info", "Transaction: " \o SliceHead(mint.hash)
                                                  \o "..." \o SliceTail(mint.hash))
                 \/ /\ mint.outcome = "threw"
                    /\ Cardinality(errs) = 1
                    /\ succ = {}
                    /\ \A i \in errs :
                          tail[i] = Line("error", "Mint failed: " \o MessageOf(mint.error))

\* C38 witnesses: a mint that ended with the success lines, and one that
\* ended with its single Error line after a fault of a remote call.
C38_Witness ==
    /\ Len(commandHistory) >= 1
    /\ Command(commandHistory[Len(commandHistory)]) = "mint"
    /\ mint.outcome = "returned" /\ pc = "idle"
    /\ SuccessLinesIn(SinceLastCommand) # {}

C38_WitnessFailed ==
    /\ Len(commandHistory) >= 1
    /\ Command(commandHistory[Len(commandHistory)]) = "mint"
    /\ mint.outcome = "threw" /\ mint.reads >= 1 /\ pc = "idle"
    /\ Cardinality(ErrorLinesIn(SinceLastCommand)) = 1

\* C39: mintNFT(quantity) with quantity below 1 or above 100 throws having
\* made no remote call; for every other invocation that got to a comparison
\* or to the approve, the amount compared with the balance, the amount
\* compared with the allowance and the amount of the approve are all
\* MINT_PRICE * quantity, quantity being an integer from 1 to 100.
C39_QuantityAndAmounts ==
    (call.state \in {"mintNFT:threw", "mintNFT:balanceOf", "mintNFT:allowance",
                     "mintNFT:approve", "mintNFT:claim"}) =>
        LET q == call.quantity
            below1 == ~q.nan /\ q.halves < 2
            above100 == ~q.nan /\ q.halves > 200
        IN  /\ (below1 \/ above100) =>
                  /\ call.state = "mintNFT:threw"
                  /\ call.remoteCalls = 0
                  /\ call.balanceCompared = NoAmount
                  /\ call.allowanceCompared = NoAmount
                  /\ call.approveAmount = NoAmount
            /\ \A amount \in {call.balanceCompared, call.allowanceCompared,
                              call.approveAmount} \ {NoAmount} :
                  /\ ~q.nan /\ q.halves % 2 = 0
                  /\ q.halves \div 2 \in 1..100
                  /\ amount = MINT_PRICE * (q.halves \div 2)
            /\ call.state = "mintNFT:allowance" => call.balanceCompared # NoAmount
            /\ call.state \in {"mintNFT:approve", "mintNFT:claim"} =>
                  call.allowanceCompared # NoAmount
            /\ call.state = "mintNFT:approve" => call.approveAmount # NoAmount

\* C39 witnesses: quantity 100 reached the approve with amount
\* 100 * MINT_PRICE; quantity 101 was refused.
C39_Witness ==
    /\ call.state = "mintNFT:approve"
    /\ call.quantity = Quantity(200)
    /\ call.balanceCompared = 100 * MINT_PRICE
    /\ call.allowanceCompared = 100 * MINT_PRICE
    /\ call.approveAmount = 100 * MINT_PRICE

C39_WitnessRefused ==
    /\ call.state = "mintNFT:threw"
    /\ call.quantity = Quantity(202)
    /\ call.message = "Quantity must be between 1 and 100"

====
